---- MODULE Spec2Model ----
(***************************************************************************)
(* Model of dwc_validator/validate.py: the checks a Darwin Core data frame  *)
(* goes through (identifier fields, coordinates, controlled vocabularies,   *)
(* numeric fields, required columns, taxonomy), the two dataset validations *)
(* that run them, and the report constructors of dwc_validator/model.py.    *)
(*                                                                          *)
(* A data frame is a record [nrows, cols]: cols maps the name of every      *)
(* present column to a sequence of nrows cells.  A cell is a record         *)
(* [t, n, s]: t is "nan" (float NaN), "none" (Python None), "num" (a        *)
(* number, n) or "str" (a string, s).  pandas treats both "nan" and "none"  *)
(* cells as null.                                                           *)
(***************************************************************************)
EXTENDS Integers, Sequences, FiniteSets, TLC

VARIABLES dataframe, errors, warnings, history

vars == <<dataframe, errors, warnings, history>>

(***************************************************************************)
(* Bounds of the model.                                                     *)
(***************************************************************************)
MaxRows == 3
MaxIdFields == 2
MaxCalls == 2
MaxFill == 11
MaxOccRows == 1
MaxTaxonRows == 2

(***************************************************************************)
(* Cells and columns.                                                       *)
(***************************************************************************)
NaN == [t |-> "nan", n |-> 0, s |-> ""]
None == [t |-> "none", n |-> 0, s |-> ""]
Num(k) == [t |-> "num", n |-> k, s |-> ""]
Str(x) == [t |-> "str", n |-> 0, s |-> x]

\* pandas isna / notnull on one cell
IsNa(c) == c.t \in {"nan", "none"}

Columns(df) == DOMAIN df.cols

\* len(dataframe), dataframe.shape[0]
NRows(df) == df.nrows

\* a faulty isna().sum(): counts the populated cells instead of the null ones
IsNaSumCountsPopulated(series) == Cardinality({i \in 1..Len(series) : ~IsNa(series[i])})

\* Series.isna().sum()
IsNaSum(series) == Cardinality({i \in 1..Len(series) : IsNa(series[i])})

\* Series.count(): the non-null cells
Count(series) == Len(series) - IsNaSum(series)

\* Series.notnull().all()
NotNullAll(series) == \A i \in 1..Len(series) : ~IsNa(series[i])

\* a faulty nunique(): counts the non-null cells, repeated values included
NUniqueCountsRepeats(series) == Cardinality({j \in 1..Len(series) : ~IsNa(series[j])})

\* Series.nunique(): the distinct non-null values
NUnique(series) ==
    Cardinality({series[i] : i \in {j \in 1..Len(series) : ~IsNa(series[j])}})

\* Series.duplicated().sum(): the rows whose value occurred in an earlier row
DuplicatedSum(series) ==
    Cardinality({i \in 1..Len(series) : \E j \in 1..(i - 1) : series[j] = series[i]})

(***************************************************************************)
(* check_id_fields.  The result is a record: outcome is "returned" or       *)
(* "KeyError" (dataframe['id'] on a frame without that column), ret the     *)
(* returned count (NoValue when nothing is returned), errors the errors     *)
(* list after the call, examined the number of candidates the loop reached. *)
(***************************************************************************)
NoValue == -1

IdResult(outcome, ret, errs, examined) ==
    [outcome |-> outcome, ret |-> ret, errors |-> errs, examined |-> examined]

RECURSIVE CheckIdLoop(_, _, _, _, _)
CheckIdLoop(id_fields, id_term, df, errs, i) ==
    IF i > Len(id_fields) THEN IdResult("returned", 0, errs, Len(id_fields))
    ELSE
      LET field == id_fields[i] IN
      IF id_term = field /\ "id" \notin Columns(df)
      THEN IdResult("KeyError", NoValue, errs, i)
      ELSE IF id_term # field /\ field \notin Columns(df)
      THEN IdResult("returned", NRows(df), Append(errs, "MISSING_ID_FIELD"), i)
      ELSE
        LET id_field_series == IF id_term = field THEN df.cols["id"] ELSE df.cols[field] IN
        IF NotNullAll(id_field_series)
        THEN IF Len(id_fields) = 1 /\ NUnique(id_field_series) # NRows(df)
             THEN IdResult("returned", DuplicatedSum(id_field_series),
                           Append(errs, "DUPLICATE_ID_FIELD_VALUES"), i)
             ELSE CheckIdLoop(id_fields, id_term, df, errs, i + 1)
        ELSE IdResult("returned", IsNaSum(id_field_series),
                      Append(errs, "MISSING_ID_FIELD_VALUES"), i)

check_id_fields(id_fields, id_term, df, errs) ==
    IF id_fields = <<>> THEN IdResult("returned", 0, errs, 0)
    ELSE CheckIdLoop(id_fields, id_term, df, errs, 1)

(***************************************************************************)
(* Data frames of the identifier checks.                                    *)
(***************************************************************************)
IdColumnNames == {"id", "occurrenceID", "catalogNumber"}

IdCells == [id |-> {NaN, Str("a")},
            occurrenceID |-> {NaN, Str("a"), Str("b")},
            catalogNumber |-> {NaN, Str("a")}]

\* the frame of n rows that holds the columns of cols named in present
FrameOf(n, present, cols) == [nrows |-> n, cols |-> [c \in present |-> cols[c]]]

\* the candidate lists: every list of at most MaxIdFields names
IdFieldLists ==
    UNION { [1..k -> {"occurrenceID", "catalogNumber"}] : k \in 0..MaxIdFields }

IdTerms == {"", "occurrenceID"}

(***************************************************************************)
(* The identifier check as the callers run it: a fresh errors list, one     *)
(* call (validate.py lines 30-34 and 156-160).                              *)
(***************************************************************************)
InitId ==
    /\ \E n \in 0..MaxRows, present \in SUBSET IdColumnNames :
         \E id \in [1..n -> IdCells.id], occurrenceID \in [1..n -> IdCells.occurrenceID],
            catalogNumber \in [1..n -> IdCells.catalogNumber] :
            dataframe = FrameOf(n, present, [id |-> id, occurrenceID |-> occurrenceID,
                                             catalogNumber |-> catalogNumber])
    /\ errors = <<>>
    /\ warnings = <<>>
    /\ history = <<>>

CallCheckIdFields ==
    /\ history = <<>>
    /\ \E id_fields \in IdFieldLists, id_term \in IdTerms :
         LET r == check_id_fields(id_fields, id_term, dataframe, errors) IN
         /\ errors' = r.errors
         /\ history' = Append(history, [op |-> "check_id_fields", id_fields |-> id_fields,
                                        id_term |-> id_term, outcome |-> r.outcome,
                                        ret |-> r.ret, examined |-> r.examined])
    /\ UNCHANGED <<dataframe, warnings>>

NextId == CallCheckIdFields

SpecId == InitId /\ [][NextId]_vars

(***************************************************************************)
(* Properties of check_id_fields.                                           *)
(***************************************************************************)
\* the column a candidate resolves to
ResolvedColumn(field, id_term) == IF field = id_term THEN "id" ELSE field

\* the rows of a column that carry a value already seen in an earlier row
RepeatedRows(series) ==
    {i \in 1..Len(series) : \E j \in 1..Len(series) : j < i /\ series[j] = series[i]}

NullRows(series) == {i \in 1..Len(series) : series[i].t \in {"nan", "none"}}

\* candidate i passes: its column is present and fully populated and, when it is
\* the only candidate, free of repeated values
CandidatePasses(df, id_fields, id_term, i) ==
    LET col == ResolvedColumn(id_fields[i], id_term) IN
    /\ col \in DOMAIN df.cols
    /\ NullRows(df.cols[col]) = {}
    /\ Len(id_fields) = 1 => RepeatedRows(df.cols[col]) = {}

\* the first candidate in list order that does not pass, 0 when all pass
FirstFailing(df, id_fields, id_term) ==
    LET failing == {i \in 1..Len(id_fields) : ~CandidatePasses(df, id_fields, id_term, i)} IN
    IF failing = {} THEN 0 ELSE CHOOSE i \in failing : \A j \in failing : i <= j

IdCalls == {k \in 1..Len(history) : history[k].op = "check_id_fields"}

\* C1: after a call with a non-empty candidate list whose first non-passing
\* candidate resolves to an absent column (id when the candidate equals id_term,
\* else the column the candidate names), the call has returned the row count,
\* has appended exactly MISSING_ID_FIELD and has examined no later candidate.
C1_MissingIdFieldShortCircuits ==
    \A k \in IdCalls :
        LET h == history[k]
            f == FirstFailing(dataframe, h.id_fields, h.id_term) IN
        (/\ Len(h.id_fields) > 0
         /\ f > 0
         /\ ResolvedColumn(h.id_fields[f], h.id_term) \notin DOMAIN dataframe.cols)
        => /\ h.outcome = "returned"
           /\ errors = <<"MISSING_ID_FIELD">>
           /\ h.ret = dataframe.nrows
           /\ h.examined = f

\* C1, on the candidates that do not equal id_term: the part of the claim the
\* code keeps.
C1_HoldsOffTheIdAlias ==
    \A k \in IdCalls :
        LET h == history[k]
            f == FirstFailing(dataframe, h.id_fields, h.id_term) IN
        (/\ f > 0
         /\ h.id_fields[f] # h.id_term
         /\ h.id_fields[f] \notin DOMAIN dataframe.cols)
        => /\ h.outcome = "returned"
           /\ errors = <<"MISSING_ID_FIELD">>
           /\ h.ret = dataframe.nrows
           /\ h.examined = f

\* C2: after a call with exactly one candidate whose column is present and fully
\* populated, with n the number of rows repeating an earlier row's value: if
\* n > 0 the call appended DUPLICATE_ID_FIELD_VALUES and returned n, and if n = 0
\* it appended nothing and returned 0.
C2_DuplicatesCounted ==
    \A k \in IdCalls :
        LET h == history[k]
            col == ResolvedColumn(h.id_fields[1], h.id_term) IN
        (/\ Len(h.id_fields) = 1
         /\ col \in DOMAIN dataframe.cols
         /\ NullRows(dataframe.cols[col]) = {})
        => LET n == Cardinality(RepeatedRows(dataframe.cols[col])) IN
           /\ h.outcome = "returned"
           /\ h.ret = n
           /\ errors = IF n > 0 THEN <<"DUPLICATE_ID_FIELD_VALUES">> ELSE <<>>

\* a single fully populated candidate column with two repeating rows was checked
C2_Witness ==
    \E k \in IdCalls :
        LET h == history[k] IN
        /\ Len(h.id_fields) = 1
        /\ ResolvedColumn(h.id_fields[1], h.id_term) \in DOMAIN dataframe.cols
        /\ NullRows(dataframe.cols[ResolvedColumn(h.id_fields[1], h.id_term)]) = {}
        /\ Cardinality(RepeatedRows(dataframe.cols[ResolvedColumn(h.id_fields[1], h.id_term)])) = 2
        /\ h.ret = 2
        /\ errors = <<"DUPLICATE_ID_FIELD_VALUES">>

\* C3: when the first candidate that does not pass has a present column with at
\* least one null cell, the call appended exactly MISSING_ID_FIELD_VALUES,
\* returned the number of null cells of that column and examined no later
\* candidate; when every candidate passes it returned 0 and appended nothing.
C3_MissingValuesShortCircuit ==
    \A k \in IdCalls :
        LET h == history[k]
            f == FirstFailing(dataframe, h.id_fields, h.id_term) IN
        /\ f = 0 => h.outcome = "returned" /\ h.ret = 0 /\ errors = <<>>
        /\ f > 0 =>
             LET col == ResolvedColumn(h.id_fields[f], h.id_term) IN
             (col \in DOMAIN dataframe.cols /\ NullRows(dataframe.cols[col]) # {})
             => /\ h.outcome = "returned"
                /\ errors = <<"MISSING_ID_FIELD_VALUES">>
                /\ h.ret = Cardinality(NullRows(dataframe.cols[col]))
                /\ h.examined = f

\* the second of two candidates was the first with null cells, two of them
C3_Witness ==
    \E k \in IdCalls :
        LET h == history[k] IN
        /\ Len(h.id_fields) = 2
        /\ FirstFailing(dataframe, h.id_fields, h.id_term) = 2
        /\ ResolvedColumn(h.id_fields[2], h.id_term) \in DOMAIN dataframe.cols
        /\ h.examined = 2
        /\ h.ret = 2
        /\ errors = <<"MISSING_ID_FIELD_VALUES">>

(***************************************************************************)
(* generate_coordinates_report.                                             *)
(***************************************************************************)
\* the strings of the model that parse as a number, with their value
NumericStrings == [s \in {"90", "45"} |-> IF s = "90" THEN 90 ELSE 45]

\* pd.to_numeric(..., errors='coerce') on one cell: a number stays, a string that
\* parses becomes its number, everything else becomes NaN
ToNumeric(c) ==
    IF c.t = "num" THEN c
    ELSE IF c.t = "str" /\ c.s \in DOMAIN NumericStrings THEN Num(NumericStrings[c.s])
    ELSE NaN

ToNumericColumn(series) == [i \in 1..Len(series) |-> ToNumeric(series[i])]

\* a faulty between(): both bounds exclusive
BetweenExclusiveSum(series, lo, hi) ==
    Cardinality({i \in 1..Len(series) :
                    series[i].t = "num" /\ lo < series[i].n /\ series[i].n < hi})

\* Series.between(lo, hi, inclusive='both').sum() on a coerced column
BetweenSum(series, lo, hi) ==
    Cardinality({i \in 1..Len(series) :
                    series[i].t = "num" /\ lo <= series[i].n /\ series[i].n <= hi})

CoordinatesReport(has_coordinates_fields, invalid_decimal_latitude_count, invalid_decimal_longitude_count) ==
    [has_coordinates_fields |-> has_coordinates_fields,
     invalid_decimal_latitude_count |-> invalid_decimal_latitude_count,
     invalid_decimal_longitude_count |-> invalid_decimal_longitude_count]

\* a faulty report of a frame without the coordinate columns
MissingCoordinatesReportFlagged == CoordinatesReport(TRUE, 0, 0)

\* the report of a frame without both coordinate columns
MissingCoordinatesReport == CoordinatesReport(FALSE, 0, 0)

\* a faulty coercion that writes the coerced columns back into the frame
FrameCoercedInPlace(df) ==
    [df EXCEPT !.cols = [c \in DOMAIN df.cols |->
        IF c \in {"decimalLatitude", "decimalLongitude"}
        THEN ToNumericColumn(df.cols[c]) ELSE df.cols[c]]]

\* the caller's frame after the two pd.to_numeric calls: they build new columns
\* and leave the frame alone
FrameAfterToNumeric(df) == df

\* the result: the report, the warnings list and the caller's frame after the call
generate_coordinates_report(df, w) ==
    IF "decimalLatitude" \notin Columns(df) \/ "decimalLongitude" \notin Columns(df)
    THEN [report |-> MissingCoordinatesReport, warnings |-> w, dataframe |-> df]
    ELSE
      LET lat_column_non_empty_count == Count(df.cols["decimalLatitude"])
          lon_column_non_empty_count == Count(df.cols["decimalLongitude"])
          lat_column == ToNumericColumn(df.cols["decimalLatitude"])
          lon_column == ToNumericColumn(df.cols["decimalLongitude"])
          lat_valid_count == BetweenSum(lat_column, -90, 90)
          lon_valid_count == BetweenSum(lon_column, -180, 180)
      IN
      IF lat_valid_count = lat_column_non_empty_count
           /\ lon_valid_count = lon_column_non_empty_count
      THEN [report |-> CoordinatesReport(TRUE, 0, 0), warnings |-> w,
            dataframe |-> FrameAfterToNumeric(df)]
      ELSE [report |-> CoordinatesReport(TRUE,
                            lat_column_non_empty_count - lat_valid_count,
                            lon_column_non_empty_count - lon_valid_count),
            warnings |-> Append(w, "INVALID_OR_OUT_OF_RANGE_COORDINATES"),
            dataframe |-> FrameAfterToNumeric(df)]

(***************************************************************************)
(* Data frames of the coordinate check, and repeated calls on one frame.    *)
(***************************************************************************)
CoordColumnNames == {"decimalLatitude", "decimalLongitude"}

CoordCells == [decimalLatitude |-> {NaN, Num(-90), Num(91), Str("90"), Str("abc")},
               decimalLongitude |-> {None, Num(-181), Num(180), Str("45")}]

InitCoord ==
    /\ \E n \in 0..MaxRows, present \in SUBSET CoordColumnNames :
         \E lat \in [1..n -> CoordCells.decimalLatitude],
            lon \in [1..n -> CoordCells.decimalLongitude] :
            dataframe = FrameOf(n, present, [decimalLatitude |-> lat, decimalLongitude |-> lon])
    /\ errors = <<>>
    /\ warnings = <<>>
    /\ history = <<>>

CallGenerateCoordinatesReport ==
    /\ Len(history) < MaxCalls
    /\ LET r == generate_coordinates_report(dataframe, warnings) IN
       /\ dataframe' = r.dataframe
       /\ warnings' = r.warnings
       /\ history' = Append(history, [op |-> "generate_coordinates_report",
                                      frame |-> dataframe, warnings_before |-> warnings,
                                      report |-> r.report])
    /\ UNCHANGED errors

NextCoord == CallGenerateCoordinatesReport

SpecCoord == InitCoord /\ [][NextCoord]_vars

(***************************************************************************)
(* Properties of generate_coordinates_report.                               *)
(***************************************************************************)
CoordCalls == {k \in 1..Len(history) : history[k].op = "generate_coordinates_report"}

\* the warnings list right after call k
WarningsAfter(k) ==
    IF k = Len(history) THEN warnings ELSE history[k + 1].warnings_before

\* the non-null cells of a column that are not numbers of lo..hi, a string that
\* reads as a number counting as that number
CellsOutside(series, lo, hi) ==
    {i \in 1..Len(series) :
        /\ series[i].t \in {"num", "str"}
        /\ ~ \/ series[i].t = "num" /\ series[i].n \in lo..hi
             \/ series[i].t = "str" /\ series[i].s = "90" /\ 90 \in lo..hi
             \/ series[i].t = "str" /\ series[i].s = "45" /\ 45 \in lo..hi}

\* C4: with both coordinate columns present, the two invalid counts are the
\* numbers of non-null latitude cells outside [-90, 90] and of non-null longitude
\* cells outside [-180, 180], and the warning is appended exactly when one of the
\* counts is above 0.
C4_InvalidCoordinatesCounted ==
    \A k \in CoordCalls :
        LET h == history[k] IN
        {"decimalLatitude", "decimalLongitude"} \subseteq DOMAIN h.frame.cols
        => LET lat == Cardinality(CellsOutside(h.frame.cols["decimalLatitude"], -90, 90))
               lon == Cardinality(CellsOutside(h.frame.cols["decimalLongitude"], -180, 180))
           IN
           /\ h.report.invalid_decimal_latitude_count = lat
           /\ h.report.invalid_decimal_longitude_count = lon
           /\ WarningsAfter(k) =
                  IF lat > 0 \/ lon > 0
                  THEN Append(h.warnings_before, "INVALID_OR_OUT_OF_RANGE_COORDINATES")
                  ELSE h.warnings_before

\* a frame with a valid bound, an out-of-range and an unreadable latitude, and an
\* out-of-range longitude, was reported with the warning
C4_Witness ==
    \E k \in CoordCalls :
        LET h == history[k] IN
        /\ {"decimalLatitude", "decimalLongitude"} \subseteq DOMAIN h.frame.cols
        /\ h.frame.cols["decimalLatitude"] = <<Num(-90), Num(91), Str("abc")>>
        /\ h.frame.cols["decimalLongitude"] = <<Num(180), Num(-181), Str("45")>>
        /\ h.report = CoordinatesReport(TRUE, 2, 1)
        /\ WarningsAfter(k) = <<"INVALID_OR_OUT_OF_RANGE_COORDINATES">>

\* C5: has_coordinates_fields is false exactly when decimalLatitude or
\* decimalLongitude is absent, and then both counts are 0 and the warnings list
\* is as it was before the call.
C5_MissingCoordinateColumns ==
    \A k \in CoordCalls :
        LET h == history[k]
            absent == \E c \in {"decimalLatitude", "decimalLongitude"} : c \notin DOMAIN h.frame.cols
        IN
        /\ h.report.has_coordinates_fields = FALSE <=> absent
        /\ absent => /\ h.report.invalid_decimal_latitude_count = 0
                      /\ h.report.invalid_decimal_longitude_count = 0
                      /\ WarningsAfter(k) = h.warnings_before

\* a frame with an out-of-range longitude column and no latitude column was reported
C5_Witness ==
    \E k \in CoordCalls :
        LET h == history[k] IN
        /\ DOMAIN h.frame.cols = {"decimalLongitude"}
        /\ h.frame.nrows > 0
        /\ \A i \in 1..h.frame.nrows : h.frame.cols["decimalLongitude"][i] = Num(-181)
        /\ h.report.has_coordinates_fields = FALSE
        /\ WarningsAfter(k) = <<>>

\* C6: two calls in a row on one frame return reports with the same three
\* values, and the frame is the same before the first call, before the second
\* and after it.
C6_CoordinatesReportIdempotent ==
    \A k \in CoordCalls :
        (k + 1) \in CoordCalls =>
            /\ history[k + 1].report = history[k].report
            /\ history[k + 1].frame = history[k].frame
            /\ dataframe = history[k].frame

\* a frame with an unreadable latitude was reported twice, both times as invalid
C6_Witness ==
    /\ Len(history) = 2
    /\ {1, 2} \subseteq CoordCalls
    /\ {"decimalLatitude", "decimalLongitude"} \subseteq DOMAIN dataframe.cols
    /\ \E i \in 1..dataframe.nrows : dataframe.cols["decimalLatitude"][i] = Str("abc")
    /\ history[1].report.invalid_decimal_latitude_count > 0
    /\ history[2].report.invalid_decimal_latitude_count > 0

(***************************************************************************)
(* create_vocabulary_report.                                                *)
(***************************************************************************)
\* the strings of the model in code point order, the order numpy.unique sorts by
CodePointOrder ==
    <<"5", "Bogus", "Fossil", "Living", "Material", "None", "Observation",
      "PreservedSpecimen", "Sample", "Taxon", "Unknown", "Voucher", "WGS84",
      "fossil", "living", "material", "nan", "observation", "sample",
      "taxon", "unknown">>

\* str.lower() on the strings of the model
LowerCase ==
    "Observation" :> "observation" @@ "observation" :> "observation" @@
    "Bogus" :> "bogus" @@ "nan" :> "nan" @@ "None" :> "none" @@ "5" :> "5" @@
    "PreservedSpecimen" :> "preservedspecimen" @@ "WGS84" :> "wgs84" @@
    "Fossil" :> "fossil" @@ "fossil" :> "fossil" @@ "Living" :> "living" @@
    "living" :> "living" @@ "Material" :> "material" @@ "material" :> "material" @@
    "Sample" :> "sample" @@ "sample" :> "sample" @@ "Taxon" :> "taxon" @@
    "taxon" :> "taxon" @@ "Unknown" :> "unknown" @@ "unknown" :> "unknown" @@
    "Voucher" :> "voucher"

\* a faulty lower-casing that leaves the string as it is
LowerUnchanged(x) == x

Lower(x) == LowerCase[x]

\* the .str accessor is refused (AttributeError) on a column whose populated
\* cells hold no string
HasStrAccessor(series) ==
    \/ \A i \in 1..Len(series) : IsNa(series[i])
    \/ \E i \in 1..Len(series) : series[i].t = "str"

\* Series.str.lower() on one cell: a cell that is no string becomes NaN
StrLower(c) == IF c.t = "str" THEN Str(Lower(c.s)) ELSE NaN

\* Series.isin(values) on one cell, values a set of strings
IsIn(c, values) == c.t = "str" /\ c.s \in values

\* str() of the numbers of the vocabulary frames
DecimalStrings == 5 :> "5"

\* ndarray.astype(numpy.str_) on one cell
AsStr(c) ==
    IF c.t = "nan" THEN "nan"
    ELSE IF c.t = "none" THEN "None"
    ELSE IF c.t = "num" THEN DecimalStrings[c.n]
    ELSE c.s

\* numpy.unique on strings: the distinct values in sorted order
Unique(strings) == SelectSeq(CodePointOrder, LAMBDA x : x \in strings)

SampleLimit == 10

\* seq[:k]
Take(seq, k) == SubSeq(seq, 1, IF Len(seq) < k THEN Len(seq) ELSE k)

VocabularyReport(field, has_field, recognised_count, unrecognised_count, non_matching_values) ==
    [field |-> field, has_field |-> has_field, recognised_count |-> recognised_count,
     unrecognised_count |-> unrecognised_count,
     non_matching_values |-> non_matching_values]

\* the result: outcome "returned" with the report, or "AttributeError" when
\* populated_values.str is refused (the report is then the empty one of the field)
create_vocabulary_report(df, field, controlled_vocabulary) ==
    IF field \notin Columns(df)
    THEN [outcome |-> "returned", report |-> VocabularyReport(field, FALSE, 0, 0, <<>>)]
    ELSE
      LET series == df.cols[field]
          not_populated_count == IsNaSum(series)
          populated_values == SelectSeq(series, LAMBDA c : ~IsNa(c))
      IN
      IF Len(populated_values) = 0
      THEN [outcome |-> "returned",
            report |-> VocabularyReport(field, TRUE, 0,
                                        NRows(df) - (not_populated_count + 0), <<>>)]
      ELSE IF ~HasStrAccessor(populated_values)
      THEN [outcome |-> "AttributeError",
            report |-> VocabularyReport(field, FALSE, 0, 0, <<>>)]
      ELSE
        LET controlled_vocabulary_lower ==
                {Lower(controlled_vocabulary[i]) : i \in 1..Len(controlled_vocabulary)}
            matching_records_count ==
                Cardinality({i \in 1..Len(populated_values) :
                    IsIn(StrLower(populated_values[i]), controlled_vocabulary_lower)})
            x == {series[i] : i \in {j \in 1..Len(series) :
                    ~IsIn(StrLower(series[j]), controlled_vocabulary_lower)}}
            first_values == Take(Unique({AsStr(c) : c \in x}), SampleLimit)
            non_matching == SelectSeq(first_values, LAMBDA v : v # "nan")
        IN
        [outcome |-> "returned",
         report |-> VocabularyReport(field, TRUE, matching_records_count,
                        NRows(df) - (not_populated_count + matching_records_count),
                        non_matching)]

(***************************************************************************)
(* Data frames of the vocabulary check: a column of at most MaxRows free    *)
(* cells followed by the first fill of the pairwise distinct Fillers.       *)
(***************************************************************************)
Fillers ==
    <<"Fossil", "fossil", "Living", "living", "Material", "material",
      "Sample", "sample", "Taxon", "taxon", "Unknown", "unknown", "Voucher">>

VocabCells == {NaN, None, Num(5), Str("Observation"), Str("observation"),
               Str("Bogus"), Str("nan")}

Vocabularies == {<<"Observation", "PreservedSpecimen">>, <<"WGS84">>}

InitVocab ==
    /\ \E n \in 0..MaxRows, fill \in 0..MaxFill, present \in SUBSET {"basisOfRecord"} :
         \E free \in [1..n -> VocabCells] :
            dataframe = FrameOf(n + fill, present,
                [basisOfRecord |-> free \o [i \in 1..fill |-> Str(Fillers[i])]])
    /\ errors = <<>>
    /\ warnings = <<>>
    /\ history = <<>>

CallCreateVocabularyReport ==
    /\ history = <<>>
    /\ \E field \in {"basisOfRecord", "geodeticDatum"}, controlled_vocabulary \in Vocabularies :
         LET r == create_vocabulary_report(dataframe, field, controlled_vocabulary) IN
         history' = Append(history, [op |-> "create_vocabulary_report", field |-> field,
                                     controlled_vocabulary |-> controlled_vocabulary,
                                     outcome |-> r.outcome, report |-> r.report])
    /\ UNCHANGED <<dataframe, errors, warnings>>

NextVocab == CallCreateVocabularyReport

SpecVocab == InitVocab /\ [][NextVocab]_vars

(***************************************************************************)
(* Properties of create_vocabulary_report.                                  *)
(***************************************************************************)
VocabCalls == {k \in 1..Len(history) : history[k].op = "create_vocabulary_report"}

\* the rows of a column whose cell is a string that lower-cased is one of the
\* lower-cased vocabulary entries
RecognisedRows(series, vocabulary) ==
    {i \in 1..Len(series) :
        /\ series[i].t = "str"
        /\ \E j \in 1..Len(vocabulary) : LowerCase[series[i].s] = LowerCase[vocabulary[j]]}

PopulatedRows(series) == {i \in 1..Len(series) : series[i].t \in {"num", "str"}}

CellText(c) == IF c.t = "str" THEN c.s ELSE DecimalStrings[c.n]

\* C8: the sample of a returned report of a present field has at most 10
\* entries, pairwise distinct, none of them 'nan', each the source-case value of
\* a populated cell whose lower-cased value is not in the lower-cased vocabulary.
C8_SampleOfUnrecognisedValues ==
    \A k \in VocabCalls :
        LET h == history[k] IN
        (h.outcome = "returned" /\ h.field \in DOMAIN dataframe.cols) =>
            LET series == dataframe.cols[h.field]
                sample == h.report.non_matching_values
                unrec == PopulatedRows(series) \ RecognisedRows(series, h.controlled_vocabulary)
            IN /\ Len(sample) <= 10
               /\ \A i, j \in 1..Len(sample) : i # j => sample[i] # sample[j]
               /\ \A i \in 1..Len(sample) : sample[i] # "nan"
               /\ \A i \in 1..Len(sample) : \E r \in unrec : CellText(series[r]) = sample[i]

\* C8, on the columns whose null cells are all NaN: the part of the claim the
\* code keeps.
C8_HoldsWithoutNoneCells ==
    \A k \in VocabCalls :
        LET h == history[k] IN
        (/\ h.outcome = "returned"
         /\ h.field \in DOMAIN dataframe.cols
         /\ \A r \in 1..Len(dataframe.cols[h.field]) : dataframe.cols[h.field][r].t # "none") =>
            LET series == dataframe.cols[h.field]
                sample == h.report.non_matching_values
                unrec == PopulatedRows(series) \ RecognisedRows(series, h.controlled_vocabulary)
            IN /\ Len(sample) <= 10
               /\ \A i, j \in 1..Len(sample) : i # j => sample[i] # sample[j]
               /\ \A i \in 1..Len(sample) : sample[i] # "nan"
               /\ \A i \in 1..Len(sample) : \E r \in unrec : CellText(series[r]) = sample[i]

\* more than 10 distinct unrecognised values were cut to a sample of 10
C8_TruncationReached ==
    \E k \in VocabCalls :
        LET h == history[k] IN
        /\ h.outcome = "returned"
        /\ h.field \in DOMAIN dataframe.cols
        /\ Cardinality({CellText(dataframe.cols[h.field][r]) :
                r \in PopulatedRows(dataframe.cols[h.field])
                       \ RecognisedRows(dataframe.cols[h.field], h.controlled_vocabulary)}) > 10
        /\ Len(h.report.non_matching_values) = 10

(***************************************************************************)
(* validate_numeric_fields.                                                 *)
(***************************************************************************)
numeric_fields ==
    <<"decimalLatitude",
      "decimalLongitude",
      "coordinateUncertaintyInMeters",
      "coordinatePrecision",
      "elevation",
      "depth",
      "minimumDepthInMeters",
      "maximumDepthInMeters",
      "minimumDistanceAboveSurfaceInMeters",
      "maximumDistanceAboveSurfaceInMeters",
      "individualCount",
      "organismQuantity",
      "organismSize",
      "sampleSizeValue",
      "temperatureInCelsius",
      "organismAge",
      "year",
      "month",
      "day",
      "startDayOfYear",
      "endDayOfYear">>

\* str.upper() on the names of the numeric fields
UpperCase ==
    "decimalLatitude" :> "DECIMALLATITUDE" @@
    "decimalLongitude" :> "DECIMALLONGITUDE" @@
    "coordinateUncertaintyInMeters" :> "COORDINATEUNCERTAINTYINMETERS" @@
    "coordinatePrecision" :> "COORDINATEPRECISION" @@
    "elevation" :> "ELEVATION" @@
    "depth" :> "DEPTH" @@
    "minimumDepthInMeters" :> "MINIMUMDEPTHINMETERS" @@
    "maximumDepthInMeters" :> "MAXIMUMDEPTHINMETERS" @@
    "minimumDistanceAboveSurfaceInMeters" :> "MINIMUMDISTANCEABOVESURFACEINMETERS" @@
    "maximumDistanceAboveSurfaceInMeters" :> "MAXIMUMDISTANCEABOVESURFACEINMETERS" @@
    "individualCount" :> "INDIVIDUALCOUNT" @@
    "organismQuantity" :> "ORGANISMQUANTITY" @@
    "organismSize" :> "ORGANISMSIZE" @@
    "sampleSizeValue" :> "SAMPLESIZEVALUE" @@
    "temperatureInCelsius" :> "TEMPERATUREINCELSIUS" @@
    "organismAge" :> "ORGANISMAGE" @@
    "year" :> "YEAR" @@
    "month" :> "MONTH" @@
    "day" :> "DAY" @@
    "startDayOfYear" :> "STARTDAYOFYEAR" @@
    "endDayOfYear" :> "ENDDAYOFYEAR"

\* the lambda of is_numeric_or_empty on one cell of the coerced column:
\* pd.isna(x) or is_numeric_dtype(x) or is_float(x) or is_integer(x)
IsNumericOrEmpty(c) == IsNa(c) \/ c.t = "num"

RECURSIVE NumericFieldsLoop(_, _, _)
NumericFieldsLoop(df, w, i) ==
    IF i > Len(numeric_fields) THEN w
    ELSE
      LET field == numeric_fields[i] IN
      IF field \in Columns(df)
      THEN LET numeric_test == ToNumericColumn(df.cols[field])
               is_valid == \A r \in 1..Len(numeric_test) : IsNumericOrEmpty(numeric_test[r])
           IN IF ~is_valid
              THEN NumericFieldsLoop(df, Append(w, "NON_NUMERIC_VALUES_IN_" \o UpperCase[field]), i + 1)
              ELSE NumericFieldsLoop(df, w, i + 1)
      ELSE NumericFieldsLoop(df, w, i + 1)

\* the warnings list after the call
validate_numeric_fields(df, w) == NumericFieldsLoop(df, w, 1)

(***************************************************************************)
(* Data frames of the numeric check.                                        *)
(***************************************************************************)
NumericColumnNames == {"decimalLatitude", "year", "occurrenceID"}

NumericCells == {NaN, Num(5), Str("45"), Str("abc")}

InitNumeric ==
    /\ \E n \in 0..MaxRows, present \in SUBSET NumericColumnNames :
         \E lat \in [1..n -> NumericCells], year \in [1..n -> NumericCells],
            id \in [1..n -> {Str("abc")}] :
            dataframe = FrameOf(n, present, [decimalLatitude |-> lat, year |-> year,
                                             occurrenceID |-> id])
    /\ errors = <<>>
    /\ warnings = <<>>
    /\ history = <<>>

CallValidateNumericFields ==
    /\ history = <<>>
    /\ warnings' = validate_numeric_fields(dataframe, warnings)
    /\ history' = Append(history, [op |-> "validate_numeric_fields"])
    /\ UNCHANGED <<dataframe, errors>>

NextNumeric == CallValidateNumericFields

SpecNumeric == InitNumeric /\ [][NextNumeric]_vars

(***************************************************************************)
(* Properties of validate_numeric_fields.                                   *)
(***************************************************************************)
NumericCalls == {k \in 1..Len(history) : history[k].op = "validate_numeric_fields"}

\* the cells that are neither null nor readable as a number
NonNumericRows(series) ==
    {i \in 1..Len(series) :
        series[i].t = "str" /\ series[i].s \notin DOMAIN NumericStrings}

\* C9: after the call the warnings hold NON_NUMERIC_VALUES_IN_<FIELD> for a
\* field of the numeric-field list exactly when the field is a column of the
\* frame with at least one cell that is neither null nor coercible to a number.
C9_NonNumericFieldsWarned ==
    \A k \in NumericCalls :
        \A i \in 1..Len(numeric_fields) :
            LET field == numeric_fields[i]
                warned == \E j \in 1..Len(warnings) :
                              warnings[j] = "NON_NUMERIC_VALUES_IN_" \o UpperCase[field]
            IN warned <=> /\ field \in DOMAIN dataframe.cols
                          /\ NonNumericRows(dataframe.cols[field]) # {}

\* what the code does instead: the call leaves the warnings list as it was
C9_NoWarningIsEverAppended ==
    \A k \in NumericCalls : warnings = <<>>

(***************************************************************************)
(* The lists of dwc_validator/vocab.py, which validate.py imports.          *)
(***************************************************************************)
required_taxonomy_columns == <<"scientificName", "vernacularName", "genus">>

required_columns_spatial_vocab == <<"decimalLatitude", "decimalLongitude", "geodeticDatum">>

required_columns_other == <<"eventDate", "basisOfRecord">>

basis_of_record_vocabulary == <<"Observation", "PreservedSpecimen">>

geodetic_datum_vocabulary == <<"WGS84">>

\* taxon_terms["Australia"]
taxon_terms_Australia == <<"kingdom", "genus">>

Range(seq) == {seq[i] : i \in 1..Len(seq)}

(***************************************************************************)
(* Python calls with keyword arguments: a call raises TypeError when it     *)
(* passes a name the function does not declare, or leaves out a parameter   *)
(* that has no default.                                                     *)
(***************************************************************************)
CallAccepted(required, optional, supplied) ==
    /\ supplied \subseteq (required \cup optional)
    /\ required \subseteq supplied

\* TaxonReport.__init__: every parameter has a default
TaxonReportAccepts(supplied) ==
    CallAccepted({}, {"has_invalid_taxa", "unrecognised_taxa", "suggested_names"}, supplied)

\* a faulty constructor: it accepts every set of keyword arguments
AcceptsEveryCall(supplied) == TRUE

\* DFValidationReport.__init__
DFValidationReportAccepts(supplied) ==
    CallAccepted({"record_type", "record_count", "errors", "warnings", "column_counts",
                  "record_error_count", "coordinates_report", "records_with_taxonomy_count",
                  "taxonomy_report", "records_with_temporal_count",
                  "records_with_recorded_by_count"},
                 {"vocab_reports", "all_required_columns_present", "missing_columns"},
                 supplied)

(***************************************************************************)
(* list(set(...)): the order of the list is the set's iteration order,      *)
(* which the code does not control.  hash_order picks one of two orders.    *)
(***************************************************************************)
HashOrders == {"forward", "backward"}

Reverse(seq) == [i \in 1..Len(seq) |-> seq[Len(seq) + 1 - i]]

ColumnOrder ==
    <<"basisOfRecord", "decimalLatitude", "decimalLongitude", "eventDate", "genus",
      "geodeticDatum", "scientificName", "vernacularName">>

\* list(set(names)) for column names
ListOfNames(names, hash_order) ==
    LET inOrder == SelectSeq(ColumnOrder, LAMBDA x : x \in names) IN
    IF hash_order = "forward" THEN inOrder ELSE Reverse(inOrder)

(***************************************************************************)
(* validate_required_fields: 0 when none of the fields is a column, else    *)
(* the populated count of every present field.                              *)
(***************************************************************************)
validate_required_fields(df, required_fields) ==
    IF ~ \E i \in 1..Len(required_fields) : required_fields[i] \in Columns(df)
    THEN [is_zero |-> TRUE, counts |-> <<>>]
    ELSE LET present_fields == SelectSeq(required_fields, LAMBDA x : x \in Columns(df)) IN
         [is_zero |-> FALSE,
          counts |-> [i \in 1..Len(present_fields) |->
                        [field |-> present_fields[i],
                         count |-> Count(df.cols[present_fields[i]])]]]

(***************************************************************************)
(* create_taxonomy_report.  The name-matching service is a record:          *)
(* batch, the names the batch response has an entry for; auto, for each     *)
(* name the autocomplete response [found, ranked, synonyms] (found: the     *)
(* list is not empty; ranked: its first entry has a rank; synonyms: for     *)
(* each entry of its synonymMatch whether it has a rank); search, for each  *)
(* name whether the exact search succeeds; cl, the classification terms     *)
(* the responses carry.                                                     *)
(***************************************************************************)
NoneValue == "<None>"

TaxonNameOrder == <<NaN, Str("Aus bus"), Str("Cus dus")>>

\* list(set(dataframe["scientificName"]))
ListOfCells(cells, hash_order) ==
    LET inOrder == SelectSeq(TaxonNameOrder, LAMBDA c : c \in cells) IN
    IF hash_order = "forward" THEN inOrder ELSE Reverse(inOrder)

TaxonDictKeys ==
    <<"original name", "proposed match(es)", "rank of proposed match(es)">>
        \o taxon_terms_Australia

\* the three leading appends of one slot
AppendMatch(d, item, name, rank) ==
    [k \in DOMAIN d |->
        IF k = "original name" THEN Append(d[k], item)
        ELSE IF k = "proposed match(es)" THEN Append(d[k], name)
        ELSE IF k = "rank of proposed match(es)" THEN Append(d[k], rank)
        ELSE d[k]]

\* for term in taxon_terms: append the term's value, or None when it is missing
AppendTermsOrNone(d, cl) ==
    [k \in DOMAIN d |->
        IF k \in Range(taxon_terms_Australia)
        THEN Append(d[k], IF k \in cl THEN "value of " \o k ELSE NoneValue)
        ELSE d[k]]

\* the synonym branch: the loop appends only the terms that are there, and the
\* else of the for statement appends one None to the list of the last term
AppendTermsThenNone(d, cl) ==
    LET looped == [k \in DOMAIN d |->
                     IF k \in Range(taxon_terms_Australia) /\ k \in cl
                     THEN Append(d[k], "value of " \o k) ELSE d[k]]
        term == taxon_terms_Australia[Len(taxon_terms_Australia)]
    IN [looped EXCEPT ![term] = Append(@, NoneValue)]

RECURSIVE AppendSynonyms(_, _, _, _, _)
\* for synonym in response_json_single[0]["synonymMatch"]
AppendSynonyms(d, item, synonyms, cl, j) ==
    IF j > Len(synonyms) THEN d
    ELSE IF synonyms[j]
         THEN AppendSynonyms(AppendTermsThenNone(AppendMatch(d, item, "synonym", "rank"), cl),
                             item, synonyms, cl, j + 1)
         ELSE AppendSynonyms(d, item, synonyms, cl, j + 1)

\* a faulty lookup in the batch response: it finds no entry for any name
BatchMatchNever(item, service) == FALSE

\* item_index is not None: the batch response has an entry whose scientificName
\* equals item
BatchMatch(item, service) == item.t = "str" /\ item.s \in service.batch

RECURSIVE TaxonomyLoop(_, _, _, _)
\* for i, item in enumerate(scientific_names_list); acc is
\* [has_invalid_taxa, invalid_taxon_dict, calls]
TaxonomyLoop(names, i, service, acc) ==
    IF i > Len(names) THEN [outcome |-> "completed"] @@ acc
    ELSE
      LET item == names[i] IN
      IF BatchMatch(item, service)
      THEN TaxonomyLoop(names, i + 1, service, acc)
      ELSE IF item.t # "str"
      THEN \* item.split on a float
           [outcome |-> "AttributeError"] @@ [acc EXCEPT !.has_invalid_taxa = TRUE]
      ELSE
        LET auto == service.auto[item.s]
            called == Append(acc.calls, [call |-> "autocomplete", name |-> item.s])
            d == acc.invalid_taxon_dict
        IN
        IF auto.found
        THEN IF auto.ranked
             THEN TaxonomyLoop(names, i + 1, service,
                    [has_invalid_taxa |-> TRUE,
                     invalid_taxon_dict |->
                        AppendTermsOrNone(AppendMatch(d, item.s, "name", "rank"), service.cl),
                     calls |-> called])
             ELSE TaxonomyLoop(names, i + 1, service,
                    [has_invalid_taxa |-> TRUE,
                     invalid_taxon_dict |-> AppendSynonyms(d, item.s, auto.synonyms, service.cl, 1),
                     calls |-> called])
        ELSE
          LET searched == Append(called, [call |-> "search", name |-> item.s]) IN
          IF service.search[item.s]
          THEN TaxonomyLoop(names, i + 1, service,
                 [has_invalid_taxa |-> TRUE,
                  invalid_taxon_dict |->
                     AppendTermsOrNone(AppendMatch(d, item.s, "scientificName", "rank"), service.cl),
                  calls |-> searched])
          ELSE \* sys.exit()
               [outcome |-> "SystemExit", has_invalid_taxa |-> TRUE,
                invalid_taxon_dict |-> d, calls |-> searched]

\* valid_taxon_count = 999
InitialValidTaxonCount == 999

RECURSIVE MinPopulated(_, _, _, _)
\* for entry in valid_data.items()
MinPopulated(counts, i, nrows, valid_taxon_count) ==
    IF i > Len(counts) THEN valid_taxon_count
    ELSE IF /\ counts[i].field # "vernacularName"
            /\ counts[i].count < nrows
            /\ counts[i].count < valid_taxon_count
         THEN MinPopulated(counts, i + 1, nrows, counts[i].count)
         ELSE MinPopulated(counts, i + 1, nrows, valid_taxon_count)

\* the result: outcome "returned" (with is_none when the function returns None),
\* or the exception or exit that ends the call
create_taxonomy_report(df, service, hash_order) ==
    LET empty == [has_invalid_taxa |-> FALSE,
                  invalid_taxon_dict |-> [k \in Range(TaxonDictKeys) |-> <<>>],
                  calls |-> <<>>]
    IN
    IF "scientificName" \notin Columns(df)
    THEN [outcome |-> "returned", is_none |-> TRUE, valid_taxon_count |-> 0] @@ empty
    ELSE
      LET scientific_names_list == ListOfCells(Range(df.cols["scientificName"]), hash_order)
          start == [empty EXCEPT !.calls = <<[call |-> "batch", name |-> ""]>>]
          looped == TaxonomyLoop(scientific_names_list, 1, service, start)
      IN
      IF looped.outcome # "completed"
      THEN [is_none |-> FALSE, valid_taxon_count |-> 0] @@ looped
      ELSE
        LET valid_data == validate_required_fields(df, required_taxonomy_columns)
            least == MinPopulated(valid_data.counts, 1, NRows(df), InitialValidTaxonCount)
            valid_taxon_count ==
                IF looped.has_invalid_taxa THEN 0
                ELSE IF NRows(df) < least THEN NRows(df) ELSE least
        IN
        [outcome |-> IF TaxonReportAccepts({"has_invalid_taxa", "unrecognised_taxa",
                                            "valid_taxon_count"})
                     THEN "returned" ELSE "TypeError",
         is_none |-> FALSE,
         valid_taxon_count |-> valid_taxon_count,
         has_invalid_taxa |-> looped.has_invalid_taxa,
         invalid_taxon_dict |-> looped.invalid_taxon_dict,
         calls |-> looped.calls]

(***************************************************************************)
(* create_datetime_report: without an eventDate column it returns a value   *)
(* the caller does not use; with one, event_dates[0] is a KeyError on a     *)
(* frame of no rows, and otherwise the function ends in sys.exit().         *)
(***************************************************************************)
create_datetime_report(df) ==
    IF "eventDate" \notin Columns(df) THEN "returned"
    ELSE IF NRows(df) = 0 THEN "KeyError"
    ELSE "SystemExit"

\* breakdown.field_populated_counts: the populated count of every column
field_populated_counts(df) == [c \in Columns(df) |-> Count(df.cols[c])]

\* type(v) is bool, for the result of set.issuperset
TypeIsBool(v) == v \in BOOLEAN

\* the guard of the branch that lists the missing other required columns:
\* type(check_missing_fields) is not bool and len(check_missing_fields) > 0
OtherColumnsMissingGuard(check_missing_fields) == ~TypeIsBool(check_missing_fields)

\* ["geodeticDatum"] in list(dataframe.columns): a list equals no column name
ListIsAColumn(df) == \E c \in Columns(df) : FALSE

(***************************************************************************)
(* validate_occurrence_dataframe.  The result records how the call ended    *)
(* (outcome: "returned", or the exception or exit), the last step it        *)
(* reached (stage) and the values of its locals at that point.              *)
(***************************************************************************)
validate_occurrence_dataframe(df, id_fields, id_term, service, hash_order) ==
    LET cols == Columns(df)
        none == [outcome |-> "returned", stage |-> "check_id_fields",
                 record_error_count |-> 0, errors |-> <<>>, warnings |-> <<>>,
                 missing_columns |-> <<>>, all_required_columns_present |-> FALSE,
                 taxonomy_calls |-> <<>>, coordinates_report |-> MissingCoordinatesReport,
                 vocabs_reports |-> <<>>, column_counts |-> <<>>]
        ids == check_id_fields(id_fields, id_term, df, <<>>)
    IN
    IF ids.outcome # "returned" THEN [none EXCEPT !.outcome = ids.outcome]
    ELSE
      LET warnings1 == validate_numeric_fields(df, <<>>)
          any_taxonomy == \E c \in cols : c \in Range(required_taxonomy_columns)
          all_taxonomy == Range(required_taxonomy_columns) \subseteq cols
          missing1 == IF any_taxonomy /\ ~all_taxonomy
                      THEN ListOfNames(Range(required_taxonomy_columns) \ cols, hash_order)
                      ELSE <<>>
          run_taxonomy == any_taxonomy /\ all_taxonomy /\ "scientificName" \in cols
          taxonomy == create_taxonomy_report(df, service, hash_order)
          r1 == [none EXCEPT !.stage = "create_taxonomy_report",
                             !.record_error_count = ids.ret, !.errors = ids.errors,
                             !.warnings = warnings1, !.missing_columns = missing1]
      IN
      IF run_taxonomy /\ taxonomy.outcome # "returned"
      THEN [r1 EXCEPT !.outcome = taxonomy.outcome, !.taxonomy_calls = taxonomy.calls]
      ELSE
        LET any_spatial == \E c \in cols : c \in Range(required_columns_spatial_vocab)
            all_spatial == Range(required_columns_spatial_vocab) \subseteq cols
            all_other == Range(required_columns_other) \subseteq cols
            missing2 ==
                IF any_spatial
                THEN IF ~all_spatial
                     THEN ListOfNames(Range(required_columns_spatial_vocab) \ cols, hash_order)
                     ELSE missing1
                ELSE IF OtherColumnsMissingGuard(all_other)
                     THEN ListOfNames(Range(required_columns_other) \ cols, hash_order)
                            \o <<"MAYBE: decimalLatitude", "MAYBE: decimalLongitude">>
                     ELSE missing1
            any_present == \E entry \in {"occurrenceID", "catalogNumber", "recordNumber"} :
                               entry \in cols
            missing_columns ==
                IF ~any_present
                THEN Append(missing2, "occurrenceID OR catalogNumber OR recordNumber")
                ELSE missing2
            coordinates == generate_coordinates_report(df, warnings1)
            r2 == [r1 EXCEPT !.stage = "create_datetime_report",
                             !.taxonomy_calls = IF run_taxonomy THEN taxonomy.calls ELSE <<>>,
                             !.missing_columns = missing_columns,
                             !.all_required_columns_present = (Len(missing_columns) = 0),
                             !.warnings = coordinates.warnings,
                             !.coordinates_report = coordinates.report]
            datetime == create_datetime_report(df)
        IN
        IF datetime # "returned" THEN [r2 EXCEPT !.outcome = datetime]
        ELSE
          LET basis == create_vocabulary_report(df, "basisOfRecord", basis_of_record_vocabulary)
              r3 == [r2 EXCEPT !.stage = "create_vocabulary_report"]
          IN
          IF basis.outcome # "returned" THEN [r3 EXCEPT !.outcome = basis.outcome]
          ELSE
            LET vocabs_reports ==
                    IF ListIsAColumn(df)
                    THEN <<basis.report,
                           create_vocabulary_report(df, "geodeticDatum",
                                                    geodetic_datum_vocabulary).report>>
                    ELSE <<basis.report>>
            IN
            [r3 EXCEPT !.stage = "DFValidationReport",
                       !.vocabs_reports = vocabs_reports,
                       !.column_counts = field_populated_counts(df),
                       !.outcome =
                          IF DFValidationReportAccepts(
                                {"record_type", "record_count", "record_error_count", "errors",
                                 "warnings", "all_required_columns_present", "missing_columns",
                                 "column_counts", "records_with_temporal_count",
                                 "coordinates_report", "taxonomy_report", "vocab_reports"})
                          THEN "returned" ELSE "TypeError"]

(***************************************************************************)
(* Data frames of the occurrence validation: any subset of the columns the  *)
(* validation looks at, at most MaxOccRows rows, every cell of a column the *)
(* same, either well-formed (variant "clean") or not (variant "dirty").     *)
(***************************************************************************)
OccColumnNames ==
    {"id", "occurrenceID", "scientificName", "vernacularName", "genus", "decimalLatitude",
     "decimalLongitude", "geodeticDatum", "eventDate", "basisOfRecord"}

OccCells ==
    [clean |-> [id |-> Str("a"), occurrenceID |-> Str("a"), scientificName |-> Str("Aus bus"),
                vernacularName |-> NaN, genus |-> Str("Aus"), decimalLatitude |-> Num(-90),
                decimalLongitude |-> Num(180), geodeticDatum |-> Str("WGS84"),
                eventDate |-> Str("2020-01-01"), basisOfRecord |-> Str("Observation")],
     dirty |-> [id |-> Str("a"), occurrenceID |-> NaN, scientificName |-> Str("Cus dus"),
                vernacularName |-> NaN, genus |-> NaN, decimalLatitude |-> Str("abc"),
                decimalLongitude |-> Num(-181), geodeticDatum |-> Str("WGS84"),
                eventDate |-> NaN, basisOfRecord |-> Num(5)]]

TaxonNames == {"Aus bus", "Cus dus"}

\* a service that matches every name, one whose autocomplete finds a ranked
\* name for every name, and one that finds nothing at all
OccServices ==
    {[batch |-> TaxonNames,
      auto |-> [x \in TaxonNames |-> [found |-> FALSE, ranked |-> FALSE, synonyms |-> <<>>]],
      search |-> [x \in TaxonNames |-> FALSE], cl |-> {"kingdom"}],
     [batch |-> {},
      auto |-> [x \in TaxonNames |-> [found |-> TRUE, ranked |-> TRUE, synonyms |-> <<>>]],
      search |-> [x \in TaxonNames |-> FALSE], cl |-> {"kingdom"}],
     [batch |-> {},
      auto |-> [x \in TaxonNames |-> [found |-> FALSE, ranked |-> FALSE, synonyms |-> <<>>]],
      search |-> [x \in TaxonNames |-> FALSE], cl |-> {"kingdom"}]}

OccIdFieldLists == {<<>>, <<"occurrenceID">>, <<"occurrenceID", "catalogNumber">>}

InitOccurrence ==
    /\ \E n \in 0..MaxOccRows, present \in SUBSET OccColumnNames, variant \in {"clean", "dirty"} :
         dataframe = FrameOf(n, present, [c \in OccColumnNames |-> [i \in 1..n |-> OccCells[variant][c]]])
    /\ errors = <<>>
    /\ warnings = <<>>
    /\ history = <<>>

CallValidateOccurrenceDataframe ==
    /\ history = <<>>
    /\ \E id_fields \in OccIdFieldLists, id_term \in IdTerms, service \in OccServices,
          hash_order \in HashOrders :
         LET r == validate_occurrence_dataframe(dataframe, id_fields, id_term, service, hash_order) IN
         history' = Append(history, [op |-> "validate_occurrence_dataframe",
                                     id_fields |-> id_fields, id_term |-> id_term,
                                     result |-> r])
    /\ UNCHANGED <<dataframe, errors, warnings>>

NextOccurrence == CallValidateOccurrenceDataframe

SpecOccurrence == InitOccurrence /\ [][NextOccurrence]_vars

(***************************************************************************)
(* Properties of validate_occurrence_dataframe.                             *)
(***************************************************************************)
OccurrenceCalls == {k \in 1..Len(history) : history[k].op = "validate_occurrence_dataframe"}

\* the call got past the required-column checks (lines 39 to 106)
PastRequiredColumns(result) ==
    result.stage \in {"create_datetime_report", "create_vocabulary_report", "DFValidationReport"}

SpatialColumnPresent(df) ==
    \E c \in DOMAIN df.cols : c \in {"decimalLatitude", "decimalLongitude", "geodeticDatum"}

\* the columns of the applicable required set that the frame lacks
LackingRequired(df) ==
    (IF SpatialColumnPresent(df)
     THEN {"decimalLatitude", "decimalLongitude", "geodeticDatum"}
     ELSE {"eventDate", "basisOfRecord"}) \ DOMAIN df.cols

\* C10: once the required-column checks are done, missing_columns holds every
\* column of the applicable required set that the frame lacks (the spatial set
\* when a spatial column is present, the other set when none is, then together
\* with the two MAYBE entries), and all_required_columns_present is true only if
\* the frame lacks none of them.
C10_MissingColumnsListed ==
    \A k \in OccurrenceCalls :
        LET r == history[k].result
            listed == {r.missing_columns[i] : i \in 1..Len(r.missing_columns)}
        IN
        PastRequiredColumns(r) =>
            /\ LackingRequired(dataframe) \subseteq listed
            /\ (~SpatialColumnPresent(dataframe) /\ LackingRequired(dataframe) # {})
                  => {"MAYBE: decimalLatitude", "MAYBE: decimalLongitude"} \subseteq listed
            /\ r.all_required_columns_present => LackingRequired(dataframe) = {}

\* C10, on the frames with a spatial column: the part of the claim the code keeps.
C10_HoldsWithASpatialColumn ==
    \A k \in OccurrenceCalls :
        LET r == history[k].result
            listed == {r.missing_columns[i] : i \in 1..Len(r.missing_columns)}
        IN
        (PastRequiredColumns(r) /\ SpatialColumnPresent(dataframe)) =>
            /\ LackingRequired(dataframe) \subseteq listed
            /\ r.all_required_columns_present => LackingRequired(dataframe) = {}

\* what the code does without a spatial column: no column of the other required
\* set and no MAYBE entry is ever listed
C10_OtherRequiredNeverListed ==
    \A k \in OccurrenceCalls :
        LET r == history[k].result
            listed == {r.missing_columns[i] : i \in 1..Len(r.missing_columns)}
        IN
        ~SpatialColumnPresent(dataframe) =>
            listed \cap {"eventDate", "basisOfRecord", "MAYBE: decimalLatitude",
                         "MAYBE: decimalLongitude"} = {}

(***************************************************************************)
(* Mutable containers.  A list or mapping a report refers to is named by    *)
(* the place that creates it: a literal or a call evaluated while a         *)
(* validation call runs makes a new object every time (fresh), a default    *)
(* argument of model.py is one object made when the class is defined.       *)
(***************************************************************************)
Fresh(name) == [fresh |-> TRUE, name |-> name]

Default(name) == [fresh |-> FALSE, name |-> name]

\* the containers a VocabularyReport refers to
VocabularyReportContainers == [non_matching_values |-> Fresh("non_matching")]

\* the containers a DFValidationReport refers to: those passed for errors and
\* warnings, and for missing_columns the one passed or else the default list
DFValidationReportContainers(passed) ==
    [errors |-> passed.errors,
     warnings |-> passed.warnings,
     missing_columns |-> IF "missing_columns" \in DOMAIN passed
                         THEN passed.missing_columns
                         ELSE Default("DFValidationReport.missing_columns")]

\* the containers a TaxonReport refers to
TaxonReportContainers(passed) ==
    [unrecognised_taxa |-> IF "unrecognised_taxa" \in DOMAIN passed
                           THEN passed.unrecognised_taxa
                           ELSE Default("TaxonReport.unrecognised_taxa"),
     suggested_names |-> IF "suggested_names" \in DOMAIN passed
                         THEN passed.suggested_names
                         ELSE Default("TaxonReport.suggested_names")]

NoContainers == [x \in {} |-> Fresh("")]

(***************************************************************************)
(* validate_event_dataframe.  int() of the value validate_required_fields   *)
(* returns: the plain 0, or a Series of counts, which converts only when it *)
(* holds one count.                                                         *)
(***************************************************************************)
IntAccepts(v) == v.is_zero \/ Len(v.counts) = 1

validate_event_dataframe(df) ==
    LET ids == check_id_fields(<<"eventID">>, "", df, <<>>)
        warnings1 == validate_numeric_fields(df, <<>>)
        valid_temporal_count ==
            validate_required_fields(df, <<"eventDate", "year", "month", "day">>)
        coordinates == generate_coordinates_report(df, warnings1)
        valid_recorded_by_count ==
            validate_required_fields(df, <<"recordedBy", "recordedByID">>)
        vocab == create_vocabulary_report(df, "geodeticDatum", geodetic_datum_vocabulary)
        r == [outcome |-> "returned", stage |-> "create_vocabulary_report",
              record_error_count |-> ids.ret, errors |-> ids.errors,
              warnings |-> coordinates.warnings,
              coordinates_report |-> coordinates.report,
              containers |-> NoContainers, vocab_containers |-> NoContainers]
    IN
    IF ids.outcome # "returned" THEN [r EXCEPT !.outcome = ids.outcome, !.stage = "check_id_fields"]
    ELSE IF vocab.outcome # "returned" THEN [r EXCEPT !.outcome = vocab.outcome]
    ELSE IF ~IntAccepts(valid_temporal_count) \/ ~IntAccepts(valid_recorded_by_count)
    THEN [r EXCEPT !.outcome = "TypeError", !.stage = "int"]
    ELSE IF ~DFValidationReportAccepts(
                {"record_type", "record_count", "record_error_count", "errors", "warnings",
                 "coordinates_report", "records_with_taxonomy_count",
                 "records_with_temporal_count", "records_with_recorded_by_count",
                 "column_counts", "vocab_reports"})
    THEN [r EXCEPT !.outcome = "TypeError", !.stage = "DFValidationReport"]
    ELSE [r EXCEPT !.stage = "DFValidationReport",
                   !.containers = DFValidationReportContainers(
                                      [errors |-> Fresh("errors"), warnings |-> Fresh("warnings")]),
                   !.vocab_containers = VocabularyReportContainers]

(***************************************************************************)
(* Data frames of the dataset validation: the occurrence columns and the    *)
(* event columns; the three taxonomy columns come together or not at all.   *)
(***************************************************************************)
DatasetOptionalColumns ==
    {"occurrenceID", "eventID", "geodeticDatum", "eventDate", "basisOfRecord", "year",
     "month", "recordedBy"}

DatasetTaxonomyColumns == {"scientificName", "vernacularName", "genus"}

DatasetColumnNames == DatasetOptionalColumns \cup DatasetTaxonomyColumns

DatasetCells ==
    [clean |-> [eventID |-> Str("e1"), year |-> Num(5), month |-> Num(5),
                recordedBy |-> Str("a")] @@ OccCells.clean,
     dirty |-> [eventID |-> NaN, year |-> Str("abc"), month |-> NaN,
                recordedBy |-> NaN] @@ OccCells.dirty]

InitDataset ==
    /\ \E n \in 0..MaxOccRows, optional \in SUBSET DatasetOptionalColumns,
          taxonomy \in {{}, DatasetTaxonomyColumns}, variant \in {"clean", "dirty"} :
         dataframe = FrameOf(n, optional \cup taxonomy,
                             [c \in DatasetColumnNames |-> [i \in 1..n |-> DatasetCells[variant][c]]])
    /\ errors = <<>>
    /\ warnings = <<>>
    /\ history = <<>>

CallValidateEventDataframe ==
    /\ history = <<>>
    /\ history' = Append(history, [op |-> "validate_event_dataframe",
                                   result |-> validate_event_dataframe(dataframe)])
    /\ UNCHANGED <<dataframe, errors, warnings>>

NextDataset == CallValidateOccurrenceDataframe \/ CallValidateEventDataframe

SpecDataset == InitDataset /\ [][NextDataset]_vars

(***************************************************************************)
(* Properties of the two dataset validations.                               *)
(***************************************************************************)
DatasetCalls ==
    {k \in 1..Len(history) :
        history[k].op \in {"validate_occurrence_dataframe", "validate_event_dataframe"}}

\* the taxonomy terminal fallback failed: the call ended in the sys.exit() of
\* create_taxonomy_report
TerminalFallbackFailed(call) ==
    /\ call.op = "validate_occurrence_dataframe"
    /\ call.result.stage = "create_taxonomy_report"
    /\ call.result.outcome = "SystemExit"

\* C11: every call of validate_occurrence_dataframe and of validate_event_dataframe
\* in which the taxonomy terminal fallback does not fail returns a DFValidationReport:
\* it neither raises nor exits.
C11_EveryCallReturnsAReport ==
    \A k \in DatasetCalls :
        ~TerminalFallbackFailed(history[k]) => history[k].result.outcome = "returned"

\* what the code does: no call of either function ever returns a report
C11_NoCallReturns ==
    \A k \in DatasetCalls : history[k].result.outcome # "returned"

\* the exit of create_datetime_report is reached: an occurrence frame with rows and
\* an eventDate column ends the process
C11_DatetimeExitReached ==
    \E k \in DatasetCalls :
        /\ history[k].op = "validate_occurrence_dataframe"
        /\ history[k].result.stage = "create_datetime_report"
        /\ history[k].result.outcome = "SystemExit"

\* the constructor is reached and rejects the call, in both functions
C11_ConstructorRejectsOccurrence ==
    \E k \in DatasetCalls :
        /\ history[k].op = "validate_occurrence_dataframe"
        /\ history[k].result.stage = "DFValidationReport"
        /\ history[k].result.outcome = "TypeError"

C11_ConstructorRejectsEvent ==
    \E k \in DatasetCalls :
        /\ history[k].op = "validate_event_dataframe"
        /\ history[k].result.stage = "DFValidationReport"
        /\ history[k].result.outcome = "TypeError"

(***************************************************************************)
(* Sequences of validation calls and the objects their reports refer to.    *)
(* An object is [call, name]: call is the number of the call that created   *)
(* it, 0 for an object that exists since model.py was imported.             *)
(***************************************************************************)
ObjectOf(container, k) == [call |-> IF container.fresh THEN k ELSE 0, name |-> container.name]

\* the objects reachable from a report whose container fields are given
ObjectsOf(containers, k) == {ObjectOf(containers[f], k) : f \in DOMAIN containers}

\* the containers of the report validate_occurrence_dataframe returns: errors,
\* warnings and missing_columns are all passed, each a list made in the call
OccurrenceContainers(result) ==
    IF result.outcome = "returned"
    THEN DFValidationReportContainers([errors |-> Fresh("errors"), warnings |-> Fresh("warnings"), missing_columns |-> Fresh("missing_columns")])
    ELSE NoContainers

\* the containers of the report create_taxonomy_report returns
TaxonomyContainers(result) ==
    IF result.outcome = "returned" /\ ~result.is_none
    THEN TaxonReportContainers([unrecognised_taxa |-> Fresh("invalid_taxon_dict")])
    ELSE NoContainers

ReportOptionalColumns == {"eventID", "geodeticDatum", "basisOfRecord", "eventDate"}

InitReports ==
    /\ \E n \in 0..MaxOccRows, optional \in SUBSET ReportOptionalColumns,
          taxonomy \in {{}, DatasetTaxonomyColumns}, variant \in {"clean", "dirty"} :
         dataframe = FrameOf(n, optional \cup taxonomy,
                             [c \in DatasetColumnNames |-> [i \in 1..n |-> DatasetCells[variant][c]]])
    /\ errors = <<>>
    /\ warnings = <<>>
    /\ history = <<>>

ReturnVocabularyReport ==
    /\ Len(history) < MaxCalls
    /\ \E choice \in {<<"basisOfRecord", basis_of_record_vocabulary>>,
                      <<"geodeticDatum", geodetic_datum_vocabulary>>} :
         LET r == create_vocabulary_report(dataframe, choice[1], choice[2]) IN
         history' = Append(history,
                       [op |-> "create_vocabulary_report", outcome |-> r.outcome,
                        objects |-> IF r.outcome = "returned"
                                    THEN ObjectsOf(VocabularyReportContainers, Len(history) + 1)
                                    ELSE {}])
    /\ UNCHANGED <<dataframe, errors, warnings>>

ReturnEventReport ==
    /\ Len(history) < MaxCalls
    /\ LET r == validate_event_dataframe(dataframe) IN
       history' = Append(history,
                     [op |-> "validate_event_dataframe", outcome |-> r.outcome,
                      objects |-> ObjectsOf(r.containers, Len(history) + 1)
                                    \cup ObjectsOf(r.vocab_containers, Len(history) + 1)])
    /\ UNCHANGED <<dataframe, errors, warnings>>

ReturnOccurrenceReport ==
    /\ Len(history) < MaxCalls
    /\ \E id_fields \in {<<>>, <<"occurrenceID">>}, service \in OccServices :
         LET r == validate_occurrence_dataframe(dataframe, id_fields, "", service, "forward") IN
         history' = Append(history,
                       [op |-> "validate_occurrence_dataframe", outcome |-> r.outcome,
                        objects |-> ObjectsOf(OccurrenceContainers(r), Len(history) + 1)])
    /\ UNCHANGED <<dataframe, errors, warnings>>

ReturnTaxonReport ==
    /\ Len(history) < MaxCalls
    /\ \E service \in OccServices :
         LET r == create_taxonomy_report(dataframe, service, "forward") IN
         history' = Append(history,
                       [op |-> "create_taxonomy_report", outcome |-> r.outcome,
                        objects |-> ObjectsOf(TaxonomyContainers(r), Len(history) + 1)])
    /\ UNCHANGED <<dataframe, errors, warnings>>

NextReports ==
    \/ ReturnVocabularyReport
    \/ ReturnEventReport
    \/ ReturnOccurrenceReport
    \/ ReturnTaxonReport

SpecReports == InitReports /\ [][NextReports]_vars

C12_OnlyVocabularyReportsCarryLists ==
    \A k \in 1..Len(history) :
        history[k].objects # {} => history[k].op = "create_vocabulary_report"

(***************************************************************************)
(* create_taxonomy_report on its own.  The name-matching service answers    *)
(* for the names of the frame: any set of them has a batch entry, the       *)
(* autocomplete of each finds nothing, a ranked name, or an unranked name   *)
(* with a list of synonyms, the exact search of each succeeds or not, and   *)
(* the responses carry any subset of the classification terms.              *)
(***************************************************************************)
AutoResponses ==
    {[found |-> FALSE, ranked |-> FALSE, synonyms |-> <<>>],
     [found |-> TRUE, ranked |-> TRUE, synonyms |-> <<>>]}
      \cup {[found |-> TRUE, ranked |-> FALSE, synonyms |-> syn] :
               syn \in {<<>>, <<TRUE>>, <<FALSE, TRUE>>, <<TRUE, TRUE>>}}

\* the scientific names of a frame: the strings of its scientificName column
NamesOf(df) ==
    IF "scientificName" \in Columns(df)
    THEN {c.s : c \in {x \in Range(df.cols["scientificName"]) : x.t = "str"}}
    ELSE {}

TaxonServicesFor(names) ==
    {[batch |-> b, auto |-> a, search |-> srch, cl |-> cl] :
        b \in SUBSET names, a \in [names -> AutoResponses], srch \in [names -> BOOLEAN],
        cl \in SUBSET Range(taxon_terms_Australia)}

InitTaxonomy ==
    /\ \E n \in 0..MaxTaxonRows, present \in SUBSET {"scientificName"} :
         \E scientificName \in [1..n -> Range(TaxonNameOrder)] :
            dataframe = FrameOf(n, present, [scientificName |-> scientificName])
    /\ errors = <<>>
    /\ warnings = <<>>
    /\ history = <<>>

CallCreateTaxonomyReport ==
    /\ history = <<>>
    /\ \E service \in TaxonServicesFor(NamesOf(dataframe)), hash_order \in HashOrders :
         history' = Append(history,
                       [op |-> "create_taxonomy_report", service |-> service,
                        hash_order |-> hash_order,
                        result |-> create_taxonomy_report(dataframe, service, hash_order)])
    /\ UNCHANGED <<dataframe, errors, warnings>>

NextTaxonomy == CallCreateTaxonomyReport

SpecTaxonomy == InitTaxonomy /\ [][NextTaxonomy]_vars

(***************************************************************************)
(* Properties of create_taxonomy_report.                                    *)
(***************************************************************************)
TaxonomyCalls == {k \in 1..Len(history) : history[k].op = "create_taxonomy_report"}

\* the run got through its loop over the names and reached the statement that
\* builds the report
RunCompleted(result) == ~result.is_none /\ result.outcome \in {"returned", "TypeError"}

\* the distinct names of the frame that have no entry in the batch response
UnmatchedNames(df, service) == NamesOf(df) \ service.batch

\* C13: after a run that completes, every sequence of unrecognised_taxa has the
\* same length, the number of distinct scientific names without a batch match.
C13_ParallelArrays ==
    \A k \in TaxonomyCalls :
        LET r == history[k].result IN
        RunCompleted(r) =>
            \A term \in DOMAIN r.invalid_taxon_dict :
                Len(r.invalid_taxon_dict[term])
                    = Cardinality(UnmatchedNames(dataframe, history[k].service))

\* no unmatched name of the call got an unranked autocomplete result
NoSynonymBranch(df, service) ==
    \A x \in UnmatchedNames(df, service) :
        service.auto[x].found => service.auto[x].ranked

\* C13 away from the synonym branch: the part of the claim the code keeps.
C13_HoldsWithoutSynonyms ==
    \A k \in TaxonomyCalls :
        LET r == history[k].result IN
        (RunCompleted(r) /\ NoSynonymBranch(dataframe, history[k].service)) =>
            \A term \in DOMAIN r.invalid_taxon_dict :
                Len(r.invalid_taxon_dict[term])
                    = Cardinality(UnmatchedNames(dataframe, history[k].service))

\* a completed run without the synonym branch recorded two unmatched names
C13_TwoSlotsReached ==
    \E k \in TaxonomyCalls :
        /\ RunCompleted(history[k].result)
        /\ NoSynonymBranch(dataframe, history[k].service)
        /\ Cardinality(UnmatchedNames(dataframe, history[k].service)) = 2

\* the synonym branch with one ranked synonym whose classification lacks kingdom:
\* one original name, no kingdom, and two entries for the last term
C13_SynonymListsUneven ==
    \E k \in TaxonomyCalls :
        LET r == history[k].result IN
        /\ RunCompleted(r)
        /\ Cardinality(UnmatchedNames(dataframe, history[k].service)) = 1
        /\ Len(r.invalid_taxon_dict["original name"]) = 1
        /\ Len(r.invalid_taxon_dict["kingdom"]) = 0
        /\ Len(r.invalid_taxon_dict["genus"]) = 2

\* C14: the batch match is issued once and before any other call; autocomplete
\* is called for a name only if the batch response has no entry for it; exact
\* search is called for a name only right after its autocomplete returned
\* nothing; and after an unsuccessful exact search no further call is made and
\* no report is produced.
C14_FallbackOrder ==
    \A k \in TaxonomyCalls :
        LET r == history[k].result
            service == history[k].service
            calls == r.calls
        IN
        /\ ("scientificName" \in Columns(dataframe)) => (calls # <<>> /\ calls[1].call = "batch")
        /\ \A i \in 1..Len(calls) :
              /\ calls[i].call = "batch" => i = 1
              /\ calls[i].call = "autocomplete" => calls[i].name \notin service.batch
              /\ calls[i].call = "search" =>
                    /\ i > 1
                    /\ calls[i - 1] = [call |-> "autocomplete", name |-> calls[i].name]
                    /\ ~service.auto[calls[i].name].found
              /\ (calls[i].call = "search" /\ ~service.search[calls[i].name]) =>
                    /\ i = Len(calls)
                    /\ r.outcome = "SystemExit"

\* two unmatched names, and the exact search of the first one the loop took was
\* unsuccessful: the run made its three calls for that name and none for the other
C14_Witness ==
    \E k \in TaxonomyCalls :
        LET r == history[k].result IN
        /\ Cardinality(UnmatchedNames(dataframe, history[k].service)) = 2
        /\ r.outcome = "SystemExit"
        /\ Len(r.calls) = 3
        /\ r.calls[3].call = "search"

\* a name with a batch entry and a name without one in the same run: autocomplete
\* is called for the second only
C14_MatchedNameSkipped ==
    \E k \in TaxonomyCalls :
        LET r == history[k].result IN
        /\ Cardinality(NamesOf(dataframe)) = 2
        /\ Cardinality(history[k].service.batch) = 1
        /\ RunCompleted(r)
        /\ Len(r.calls) = 2

(***************************************************************************)
(* Data frames for valid_taxon_count: one scientific name, the genus and    *)
(* vernacularName columns present or not, genus populated in any rows; of   *)
(* at most MaxRows rows, or of about as many rows as the count the code      *)
(* starts from.                                                             *)
(***************************************************************************)
LargeRowCounts == {InitialValidTaxonCount, InitialValidTaxonCount + 1}

TaxonCountColumns(scientificName, genus) ==
    [scientificName |-> scientificName, genus |-> genus,
     vernacularName |-> [i \in 1..Len(scientificName) |-> NaN]]

InitTaxonCount ==
    /\ \/ \E n \in 0..MaxRows, extra \in SUBSET {"genus", "vernacularName"} :
            \E scientificName \in [1..n -> {NaN, Str("Aus bus")}],
               genus \in [1..n -> {NaN, Str("Aus")}] :
               dataframe = FrameOf(n, {"scientificName"} \cup extra,
                                   TaxonCountColumns(scientificName, genus))
       \/ \E n \in LargeRowCounts, extra \in SUBSET {"genus", "vernacularName"}, gaps \in 0..1 :
            dataframe = FrameOf(n, {"scientificName"} \cup extra,
                                TaxonCountColumns([i \in 1..n |-> Str("Aus bus")],
                                    [i \in 1..n |-> IF i <= gaps THEN NaN ELSE Str("Aus")]))
    /\ errors = <<>>
    /\ warnings = <<>>
    /\ history = <<>>

SpecTaxonCount == InitTaxonCount /\ [][NextTaxonomy]_vars

\* the least of a non-empty set of numbers
Least(S) == CHOOSE x \in S : \A y \in S : x <= y

\* the populated-row counts of the required taxonomy columns of the frame,
\* vernacularName left out
PopulatedCounts(df) ==
    {Count(df.cols[c]) :
        c \in (Range(required_taxonomy_columns) \ {"vernacularName"}) \cap Columns(df)}

\* C15: valid_taxon_count is 0 when a name had no batch match, and otherwise the
\* least populated-row count of the required taxonomy columns other than
\* vernacularName, never more than the row count, for every row count.
C15_ValidTaxonCount ==
    \A k \in TaxonomyCalls :
        LET r == history[k].result IN
        RunCompleted(r) =>
            r.valid_taxon_count =
                IF UnmatchedNames(dataframe, history[k].service) # {} THEN 0
                ELSE Least(PopulatedCounts(dataframe) \cup {NRows(dataframe)})

\* C15 on the frames of at most InitialValidTaxonCount rows: the part of the
\* claim the code keeps.
C15_HoldsUpToTheStartingCount ==
    \A k \in TaxonomyCalls :
        LET r == history[k].result IN
        (RunCompleted(r) /\ NRows(dataframe) <= InitialValidTaxonCount) =>
            r.valid_taxon_count =
                IF UnmatchedNames(dataframe, history[k].service) # {} THEN 0
                ELSE Least(PopulatedCounts(dataframe) \cup {NRows(dataframe)})

\* a frame of 1000 fully populated rows whose name is matched: the count stays at
\* the value it started from
C15_StartingCountReturned ==
    \E k \in TaxonomyCalls :
        LET r == history[k].result IN
        /\ RunCompleted(r)
        /\ NRows(dataframe) = InitialValidTaxonCount + 1
        /\ PopulatedCounts(dataframe) = {NRows(dataframe)}
        /\ UnmatchedNames(dataframe, history[k].service) = {}
        /\ r.valid_taxon_count = InitialValidTaxonCount

\* a small frame whose genus column is the least populated one: its count is
\* what the run computes
C15_LeastCountReached ==
    \E k \in TaxonomyCalls :
        LET r == history[k].result IN
        /\ RunCompleted(r)
        /\ UnmatchedNames(dataframe, history[k].service) = {}
        /\ r.valid_taxon_count = 1
        /\ NRows(dataframe) = 3
        /\ "vernacularName" \in Columns(dataframe)

====
